---- MODULE Spec2Model ----
(***************************************************************************)
(* Model of src/download_raw_data.py: the entry point (__main__) and       *)
(* download_surfdrive_folder, one action per statement group.  Bytes are   *)
(* numbers 0..255, text is a sequence of one-character strings, and the    *)
(* network, the filesystem and the console are the environment.            *)
(***************************************************************************)
EXTENDS Integers, Sequences, FiniteSets, TLC

\* ------------------------------------------------------------------ bounds
MaxBody  == 17      \* longest response body served
MaxChunk == 4       \* largest block_size passed by a direct caller

\* --------------------------------------------------------- program constants
DefaultBlockSize == 8192

VARIABLES
    entry,          \* "main": run as a script; "direct": the function is called
    pc,             \* position in the program
    LINK, PASSWORD, \* os.getenv results: [set |-> BOOLEAN, value |-> STRING]
    block_size,     \* chunk size argument
    netCalls,       \* number of requests.get calls issued
    response,       \* [status, headers, body] once the GET has returned
    total_size_in_bytes,
    n,              \* progress_bar.n
    pos,            \* bytes of the body consumed by iter_content
    chunk,          \* the chunk bound by the for loop
    dirExists,      \* output_path.parent exists
    file,           \* [exists |-> BOOLEAN, content |-> Seq(byte)] at output_path
    fileOpen,       \* the handle f is open
    writes,         \* the chunks passed to f.write that were written, in order
    exc,            \* the exception in flight or last caught, "none" if none
    faultAt,        \* the step at which exc was raised, "none" if none
    out,            \* lines printed on standard output
    fs0             \* the filesystem before the run: [dirExists, file]

vars == << entry, pc, LINK, PASSWORD, block_size, netCalls, response,
           total_size_in_bytes, n, pos, chunk, dirExists, file, fileOpen,
           writes, exc, faultAt, out, fs0 >>

\* ------------------------------------------------------------- text helpers
Min(a, b) == IF a < b THEN a ELSE b

DigitChars == << "0", "1", "2", "3", "4", "5", "6", "7", "8", "9" >>

IsDigit(c) == \E d \in 1..10 : DigitChars[d] = c

DigitVal(c) == (CHOOSE d \in 1..10 : DigitChars[d] = c) - 1

\* str(k) / f"{k}" for a non-negative integer: its decimal digits
RECURSIVE Str(_)
Str(k) == IF k < 10 THEN << DigitChars[k + 1] >>
          ELSE Str(k \div 10) \o << DigitChars[(k % 10) + 1] >>

RECURSIVE LStrip(_)
LStrip(s) == IF s # << >> /\ Head(s) = " " THEN LStrip(Tail(s)) ELSE s

RECURSIVE RStrip(_)
RStrip(s) == IF s # << >> /\ s[Len(s)] = " "
             THEN RStrip(SubSeq(s, 1, Len(s) - 1)) ELSE s

RECURSIVE DigitsValue(_)
DigitsValue(s) == IF s = << >> THEN 0
                  ELSE 10 * DigitsValue(SubSeq(s, 1, Len(s) - 1)) + DigitVal(s[Len(s)])

AllDigits(s) == s # << >> /\ \A i \in 1..Len(s) : IsDigit(s[i])

\* int(text): surrounding blanks stripped, an optional sign, then decimal
\* digits; anything else raises ValueError (ok = FALSE)
ParseInt(s) ==
    LET t    == RStrip(LStrip(s))
        sgn  == t # << >> /\ Head(t) \in {"-", "+"}
        d    == IF sgn THEN Tail(t) ELSE t
    IN  IF AllDigits(d)
        THEN [ok |-> TRUE,
              val |-> IF sgn /\ Head(t) = "-" THEN 0 - DigitsValue(d) ELSE DigitsValue(d)]
        ELSE [ok |-> FALSE, val |-> 0]

\* s occurs in t as a contiguous run
Contains(t, s) ==
    \E i \in 0..(Len(t) - Len(s)) : SubSeq(t, i + 1, i + Len(s)) = s

\* ----------------------------------------------------------- the exceptions
ExcParent == [ ConnectionError   |-> "RequestException",
               RequestException  |-> "OSError",
               OSError           |-> "Exception",
               ValueError        |-> "Exception",
               Exception         |-> "BaseException",
               KeyboardInterrupt |-> "BaseException",
               BaseException     |-> "object" ]

RECURSIVE IsSubclass(_, _)
IsSubclass(c, base) ==
    \/ c = base
    \/ c \in DOMAIN ExcParent /\ IsSubclass(ExcParent[c], base)

NetworkFaults == {"ConnectionError", "RequestException"}
IOFaults      == {"OSError"}
Interrupts    == {"KeyboardInterrupt"}

\* `except RequestException`, as the docstring's Raises: section suggests
Caught_RequestOnly(e) == IsSubclass(e, "RequestException")

\* line 65: except Exception as e
Caught(e) == IsSubclass(e, "Exception")

\* ------------------------------------------------------------ the entry point
\* `if LINK is None or PASSWORD is None`: an empty value passes
EnvMissing_NoneOnly(link, password) == ~link.set \/ ~password.set

\* lines 72-73: `not required_var` for LINK, then PASSWORD
EnvMissing(link, password) ==
    \/ ~link.set \/ link.value = ""
    \/ ~password.set \/ password.value = ""

EnvValues == { [set |-> FALSE, value |-> ""],
               [set |-> TRUE,  value |-> ""],
               [set |-> TRUE,  value |-> "v"] }

\* ------------------------------------------------------------- the response
Statuses == {200, 206, 401, 404, 500}

Body(len) == [i \in 1..len |-> (250 + i) % 256]

Bodies == { Body(len) : len \in 0..MaxBody }

NoHeader == [present |-> FALSE, value |-> << >>]

Header(v) == [present |-> TRUE, value |-> v]

Unparsable == { << >>, << "a", "b", "c" >>, << "1", "x" >>, << "1", " ", "7" >> }

ContentLengths ==
    {NoHeader}
    \cup { Header(Str(k)) : k \in 0..(MaxBody + 1) }
    \cup { Header(<< " " >> \o Str(MaxBody) \o << " " >>), Header(<< "-", "1" >>),
           Header(<< "0" >> \o Str(MaxBody)) }
    \cup { Header(v) : v \in Unparsable }

Responses == [status : Statuses, headers : ContentLengths, body : Bodies]

NoResponse == [status |-> 0, headers |-> NoHeader, body |-> << >>]

\* ------------------------------------------------------- the function's steps
\* `status_code != 401`: every other status is downloaded
StatusOk_Not401(status) == status # 401

\* line 39
StatusOk(status) == status = 200

\* `status_code == 403`: the wrong code is taken for the authentication failure
AuthFailed_Forbidden(status) == status = 403

\* line 60
AuthFailed(status) == status = 401

\* line 63
FailureMessage(status) ==
    << "Error: Failed to download. Status code: " >> \o Str(status)

AuthMessage == << "Error: Authentication failed. Please check the password." >>

SuccessMessage == << "Success! Saved to '", "output_path", "'" >>

IntegrityMessage == << "ERROR, something went wrong" >>

ExceptionMessage(e) == << "An unexpected error occurred: ", e >>

\* line 44: int(response.headers.get("content-length", 0))
DeclaredSize(headers) ==
    IF headers.present THEN ParseInt(headers.value) ELSE [ok |-> TRUE, val |-> 0]

\* a stream that drops a trailing chunk shorter than chunk_size
IterChunk_DropShort(body, p, size) ==
    IF p + size <= Len(body) THEN SubSeq(body, p + 1, p + size) ELSE << >>

\* line 49: the next chunk of response.iter_content(chunk_size), << >> at the end
IterChunk(body, p, size) == SubSeq(body, p + 1, Min(p + size, Len(body)))

\* progress_bar.update(block_size)
Update_BlockSize(count, c, size) == count + size

\* line 50: progress_bar.update(len(chunk))
Update(count, c, size) == count + Len(c)

\* open(..., "ab"): an existing file is kept and appended to
OpenWb_Append(f) == [exists |-> TRUE, content |-> IF f.exists THEN f.content ELSE << >>]

\* line 48: open(output_path, "wb") creates or truncates
OpenWb(f) == [exists |-> TRUE, content |-> << >>]

\* line 51: f.write(chunk)
FileWrite(f, c) == [f EXCEPT !.content = @ \o c]

\* f = open(...) with no `with`: an exception skips f.close()
ExitWith_NoCleanup(open) == open

\* line 48: leaving the with block, normally or by an exception, closes f
ExitWith(open) == FALSE

\* `progress_bar.n != total_size_in_bytes` alone
Mismatch_NoZeroCheck(total, count) == count # total

\* line 55
Mismatch(total, count) == total # 0 /\ count # total

\* ------------------------------------------------------------------- state
NoFile == [exists |-> FALSE, content |-> << >>]

OldFile == [exists |-> TRUE, content |-> << 7, 7, 7 >>]

\* the filesystems a run can start from: no directory, an empty directory,
\* a directory holding an earlier download
InitialFs == { [dirExists |-> FALSE, file |-> NoFile],
               [dirExists |-> TRUE,  file |-> NoFile],
               [dirExists |-> TRUE,  file |-> OldFile] }

Init ==
    /\ entry \in {"main", "direct"}
    /\ pc = IF entry = "main" THEN "main" ELSE "call"
    /\ LINK \in (IF entry = "main" THEN EnvValues ELSE {[set |-> TRUE, value |-> "v"]})
    /\ PASSWORD \in (IF entry = "main" THEN EnvValues ELSE {[set |-> TRUE, value |-> "v"]})
    /\ block_size \in (IF entry = "main" THEN {DefaultBlockSize} ELSE 1..MaxChunk)
    /\ netCalls = 0
    /\ response = NoResponse
    /\ total_size_in_bytes = 0
    /\ n = 0
    /\ pos = 0
    /\ chunk = << >>
    /\ fs0 \in InitialFs
    /\ dirExists = fs0.dirExists
    /\ file = fs0.file
    /\ fileOpen = FALSE
    /\ writes = << >>
    /\ exc = "none"
    /\ faultAt = "none"
    /\ out = << >>

\* raise e at step `at`: control passes to the except clause of line 65
Raise(e, at) ==
    /\ exc' = e
    /\ faultAt' = at
    /\ pc' = "except"

\* lines 71-82: the entry point
Main ==
    /\ pc = "main"
    /\ IF EnvMissing(LINK, PASSWORD)
       THEN /\ pc' = "halted"
            /\ exc' = "ValueError"
            /\ faultAt' = "main"
       ELSE /\ pc' = "call"
            /\ UNCHANGED << exc, faultAt >>
    /\ UNCHANGED << entry, LINK, PASSWORD, block_size, netCalls, response,
                    total_size_in_bytes, n, pos, chunk, dirExists, file,
                    fileOpen, writes, out, fs0 >>

\* lines 32-34
Enter ==
    /\ pc = "call"
    /\ out' = out \o << << "Target URL: ", LINK.value >>,
                        << "Downloading to '", "output_path", "'..." >> >>
    /\ pc' = "get"
    /\ UNCHANGED << entry, LINK, PASSWORD, block_size, netCalls, response,
                    total_size_in_bytes, n, pos, chunk, dirExists, file,
                    fileOpen, writes, exc, faultAt, fs0 >>

\* line 37: requests.get(share_url, auth=..., stream=True)
Get ==
    /\ pc = "get"
    /\ netCalls' = netCalls + 1
    /\ \/ /\ \E r \in Responses : response' = r
          /\ pc' = "status"
          /\ UNCHANGED << exc, faultAt >>
       \/ /\ \E e \in NetworkFaults \cup Interrupts : Raise(e, "get")
          /\ UNCHANGED response
    /\ UNCHANGED << entry, LINK, PASSWORD, block_size, total_size_in_bytes, n,
                    pos, chunk, dirExists, file, fileOpen, writes, out, fs0 >>

\* lines 39, 60-63: the branch on response.status_code
CheckStatus ==
    /\ pc = "status"
    /\ IF StatusOk(response.status)
       THEN pc' = "mkdir" /\ UNCHANGED out
       ELSE /\ pc' = "done"
            /\ out' = Append(out, IF AuthFailed(response.status)
                                  THEN AuthMessage
                                  ELSE FailureMessage(response.status))
    /\ UNCHANGED << entry, LINK, PASSWORD, block_size, netCalls, response,
                    total_size_in_bytes, n, pos, chunk, dirExists, file,
                    fileOpen, writes, exc, faultAt, fs0 >>

\* line 41: output_path.parent.mkdir(parents=True, exist_ok=True)
Mkdir ==
    /\ pc = "mkdir"
    /\ \/ /\ dirExists' = TRUE
          /\ pc' = "length"
          /\ UNCHANGED << exc, faultAt >>
       \/ /\ ~dirExists
          /\ \E e \in IOFaults : Raise(e, "mkdir")
          /\ UNCHANGED dirExists
    /\ UNCHANGED << entry, LINK, PASSWORD, block_size, netCalls, response,
                    total_size_in_bytes, n, pos, chunk, file, fileOpen, writes,
                    out, fs0 >>

\* lines 44-46: the declared size and the progress bar
ReadLength ==
    /\ pc = "length"
    /\ LET size == DeclaredSize(response.headers)
       IN  IF size.ok
           THEN /\ total_size_in_bytes' = size.val
                /\ n' = 0
                /\ pc' = "open"
                /\ UNCHANGED << exc, faultAt >>
           ELSE /\ Raise("ValueError", "length")
                /\ UNCHANGED << total_size_in_bytes, n >>
    /\ UNCHANGED << entry, LINK, PASSWORD, block_size, netCalls, response, pos,
                    chunk, dirExists, file, fileOpen, writes, out, fs0 >>

\* line 48: with open(output_path, "wb") as f
OpenFile ==
    /\ pc = "open"
    /\ \/ /\ file' = OpenWb(file)
          /\ fileOpen' = TRUE
          /\ pc' = "iter"
          /\ UNCHANGED << exc, faultAt >>
       \/ /\ \E e \in IOFaults : Raise(e, "open")
          /\ UNCHANGED << file, fileOpen >>
    /\ UNCHANGED << entry, LINK, PASSWORD, block_size, netCalls, response,
                    total_size_in_bytes, n, pos, chunk, dirExists, writes, out,
                    fs0 >>

\* line 49: the for loop asks iter_content for the next chunk
NextChunk ==
    /\ pc = "iter"
    /\ \/ /\ LET c == IterChunk(response.body, pos, block_size)
             IN  IF c = << >>
                 THEN /\ fileOpen' = ExitWith(fileOpen)
                      /\ pc' = "report"
                      /\ UNCHANGED << chunk, pos >>
                 ELSE /\ chunk' = c
                      /\ pos' = pos + Len(c)
                      /\ pc' = "write"
                      /\ UNCHANGED fileOpen
          /\ UNCHANGED << exc, faultAt >>
       \/ /\ \E e \in NetworkFaults \cup Interrupts : Raise(e, "read")
          /\ fileOpen' = ExitWith(fileOpen)
          /\ UNCHANGED << chunk, pos >>
    /\ UNCHANGED << entry, LINK, PASSWORD, block_size, netCalls, response,
                    total_size_in_bytes, n, dirExists, file, writes, out, fs0 >>

\* lines 50-51: the loop body
WriteChunk ==
    /\ pc = "write"
    /\ n' = Update(n, chunk, block_size)
    /\ \/ /\ file' = FileWrite(file, chunk)
          /\ writes' = Append(writes, chunk)
          /\ pc' = "iter"
          /\ UNCHANGED << fileOpen, exc, faultAt >>
       \/ /\ \E e \in IOFaults : Raise(e, "write")
          /\ fileOpen' = ExitWith(fileOpen)
          /\ UNCHANGED << file, writes >>
    /\ UNCHANGED << entry, LINK, PASSWORD, block_size, netCalls, response,
                    total_size_in_bytes, pos, chunk, dirExists, out, fs0 >>

\* lines 53-58: the outcome of a stream that ended
Report ==
    /\ pc = "report"
    /\ out' = Append(out, IF Mismatch(total_size_in_bytes, n)
                          THEN IntegrityMessage
                          ELSE SuccessMessage)
    /\ pc' = "done"
    /\ UNCHANGED << entry, LINK, PASSWORD, block_size, netCalls, response,
                    total_size_in_bytes, n, pos, chunk, dirExists, file,
                    fileOpen, writes, exc, faultAt, fs0 >>

\* lines 65-66: except Exception as e; anything else leaves the function
Except ==
    /\ pc = "except"
    /\ IF Caught(exc)
       THEN /\ out' = Append(out, ExceptionMessage(exc))
            /\ pc' = "done"
       ELSE /\ pc' = "raised"
            /\ UNCHANGED out
    /\ UNCHANGED << entry, LINK, PASSWORD, block_size, netCalls, response,
                    total_size_in_bytes, n, pos, chunk, dirExists, file,
                    fileOpen, writes, exc, faultAt, fs0 >>

Next ==
    \/ Main
    \/ Enter
    \/ Get
    \/ CheckStatus
    \/ Mkdir
    \/ ReadLength
    \/ OpenFile
    \/ NextChunk
    \/ WriteChunk
    \/ Report
    \/ Except

Spec == Init /\ [][Next]_vars

\* ---------------------------------------------------------------- vocabulary
TypeOK ==
    /\ pc \in {"main", "halted", "call", "get", "status", "mkdir", "length",
               "open", "iter", "write", "report", "except", "done", "raised"}
    /\ netCalls \in 0..1
    /\ n \in Nat
    /\ pos \in 0..MaxBody
    /\ fileOpen \in BOOLEAN
    /\ dirExists \in BOOLEAN

\* the function has returned to its caller, normally or not
Returned == pc \in {"done", "raised"}

\* the stream of a status-200 download ended without a fault and was reported
Completed == pc = "done" /\ StatusOk(response.status) /\ exc = "none"

\* the outcome lines: everything printed after the two lines of 33-34
Outcome == SubSeq(out, 3, Len(out))

FsUntouched == dirExists = fs0.dirExists /\ file = fs0.file

RECURSIVE Concat(_)
Concat(ss) == IF ss = << >> THEN << >> ELSE Head(ss) \o Concat(Tail(ss))

Last(s) == s[Len(s)]

\* the digits of the status codes, written out
StatusText(status) ==
    CASE status = 206 -> << "2", "0", "6" >>
      [] status = 404 -> << "4", "0", "4" >>
      [] status = 500 -> << "5", "0", "0" >>
      [] OTHER        -> << >>

\* the size the server declared: the number its Content-Length spells, 0 if
\* it sent none
Declared == IF response.headers.present THEN total_size_in_bytes ELSE 0

\* ------------------------------------------------------------------- claims

\* C1: when the stream of a status-200 response of N bytes ends without a
\* fault, progress_bar.n = N and the file holds exactly the N bytes of the
\* body, in the order received, whatever the chunk size.
C1_CounterAndFileEqualBody ==
    (pc \in {"report", "done"} /\ StatusOk(response.status) /\ exc = "none") =>
        /\ n = Len(response.body)
        /\ file.exists
        /\ file.content = response.body
        /\ Concat(writes) = response.body
        /\ \A i \in 1..Len(writes) : Len(writes[i]) \in 1..block_size

C1_Witness ==
    /\ Completed
    /\ Len(response.body) > 2 * block_size
    /\ Len(response.body) % block_size # 0
    /\ n = Len(response.body)
    /\ fs0.file = OldFile

\* C2: after a status-200 stream that ended without a fault the outcome is
\* the integrity warning exactly when the declared Content-Length is nonzero
\* and differs from the bytes streamed, and success otherwise (equal, 0 or
\* omitted); the file holds exactly the bytes streamed in every case.
C2_OutcomeMatchesDeclaredLength ==
    Completed =>
        /\ \A k \in 0..(MaxBody + 1) :
               response.headers = Header(Str(k)) => total_size_in_bytes = k
        /\ Outcome = << IF Declared # 0 /\ Declared # Len(response.body)
                        THEN IntegrityMessage
                        ELSE SuccessMessage >>
        /\ file.exists
        /\ file.content = response.body

C2_Witness ==
    /\ Completed
    /\ Declared # 0
    /\ Len(response.body) > Declared
    /\ file.content = response.body
    /\ Outcome = << IntegrityMessage >>

\* C3: a 401 response is answered with the authentication message and a
\* normal return; nothing is created, opened or truncated at the destination
\* and an existing file keeps its content.
C3_Status401LeavesFilesystem ==
    response.status = 401 =>
        /\ pc \in {"status", "done"}
        /\ FsUntouched
        /\ ~fileOpen
        /\ writes = << >>
        /\ exc = "none"
        /\ pc = "done" => Outcome = << AuthMessage >>

C3_Witness ==
    /\ response.status = 401
    /\ pc = "done"
    /\ fs0.file = OldFile
    /\ file = OldFile

\* C4: any status other than 200 and 401 creates no file and no directory,
\* leaves an existing file alone, returns normally and prints the generic
\* failure message, which contains the status code.
C4_OtherStatusReportsCode ==
    (response.status \in Statuses \ {200, 401}) =>
        /\ pc \in {"status", "done"}
        /\ FsUntouched
        /\ ~fileOpen
        /\ writes = << >>
        /\ exc = "none"
        /\ pc = "done" =>
              /\ Len(Outcome) = 1
              /\ Outcome[1] # AuthMessage
              /\ Head(Outcome[1]) = "Error: Failed to download. Status code: "
              /\ Contains(Outcome[1], StatusText(response.status))

C4_Witness ==
    /\ response.status = 404
    /\ pc = "done"
    /\ ~fs0.dirExists
    /\ ~dirExists
    /\ Last(out) = << "Error: Failed to download. Status code: ", "4", "0", "4" >>

C6_MissingEnvHaltsBeforeIO ==
    LET present(v) == v.set /\ v.value # ""
    IN  entry = "main" =>
            /\ ~(present(LINK) /\ present(PASSWORD)) =>
                  /\ pc \in {"main", "halted"}
                  /\ netCalls = 0
                  /\ FsUntouched
                  /\ out = << >>
            /\ pc = "halted" =>
                  /\ ~(present(LINK) /\ present(PASSWORD))
                  /\ exc = "ValueError"
            /\ pc \notin {"main", "halted"} => present(LINK) /\ present(PASSWORD)

C6_Witness ==
    /\ entry = "main"
    /\ pc = "halted"
    /\ LINK = [set |-> TRUE, value |-> "v"]
    /\ PASSWORD = [set |-> TRUE, value |-> ""]
    /\ netCalls = 0

\* C7: on a status-200 response the declared size is the Content-Length
\* value, 0 when the header is absent or unparsable; with an unparsable
\* Content-Length the download still proceeds, the body is streamed to the
\* file and no integrity warning is produced.
C7_UnparsableLengthDefaultsToZero ==
    (StatusOk(response.status) /\ pc = "done"
        /\ faultAt \notin {"mkdir", "open", "read", "write"}) =>
        /\ ~response.headers.present => total_size_in_bytes = 0
        /\ response.headers.value \in Unparsable =>
              /\ response.headers.present
              /\ total_size_in_bytes = 0
              /\ file.exists
              /\ file.content = response.body
              /\ Outcome = << SuccessMessage >>

\* C8: the handle of the destination file is open only while the streaming
\* loop runs and is closed whenever the function has returned: after a
\* completed stream, after a non-200 status (never opened), and after a read
\* or write fault partway through.
C8_HandleClosedOnEveryExit ==
    /\ fileOpen => pc \in {"iter", "write"}
    /\ pc \in {"iter", "write"} => fileOpen
    /\ (Returned \/ pc \in {"report", "except", "halted"}) => ~fileOpen

C8_Witness ==
    /\ pc = "done"
    /\ faultAt = "read"
    /\ Len(writes) >= 2
    /\ ~fileOpen

\* the scenario of C9: 17 bytes served with Content-Length: 17, chunk size 4
C9_Scenario ==
    /\ Completed
    /\ Len(response.body) = 17
    /\ response.headers = Header(<< "1", "7" >>)
    /\ block_size = 4

\* C9 as stated: three chunks of 4 bytes and one of 1 byte are written in
\* order, the file is 17 bytes and the outcome is success.
C9_ThreeChunksOfFourAndOne ==
    C9_Scenario =>
        /\ Len(writes) = 4
        /\ \A i \in 1..3 : Len(writes[i]) = 4
        /\ Len(writes[4]) = 1
        /\ Concat(writes) = response.body
        /\ Len(file.content) = 17
        /\ Outcome = << SuccessMessage >>

\* C9 amended: four chunks of 4 bytes and one of 1 byte are written in order,
\* the file is 17 bytes and the outcome is success.
C9_FourChunksOfFourAndOne ==
    C9_Scenario =>
        /\ Len(writes) = 5
        /\ \A i \in 1..4 : writes[i] = SubSeq(response.body, 4 * i - 3, 4 * i)
        /\ writes[5] = << response.body[17] >>
        /\ file.content = response.body
        /\ Len(file.content) = 17
        /\ Outcome = << SuccessMessage >>

C9_Witness ==
    /\ C9_Scenario
    /\ Len(writes) = 5
    /\ Len(file.content) = 17

\* C10: when a chunk read or a chunk write raises partway through a
\* status-200 stream, the file stays on disk holding exactly the chunks
\* written before the fault (the previous content is gone), the counter is
\* at least the bytes in the file, and the only outcome printed is the
\* exception message: no success message, no integrity warning.
C10_FaultLeavesWrittenPrefix ==
    (faultAt \in {"read", "write"}) =>
        /\ file.exists
        /\ file.content = Concat(writes)
        /\ file.content = SubSeq(response.body, 1, Len(file.content))
        /\ n >= Len(file.content)
        /\ faultAt = "read" => n = Len(file.content)
        /\ faultAt = "write" => n = Len(file.content) + Len(chunk)
        /\ \A i \in 1..Len(out) : out[i] \notin {SuccessMessage, IntegrityMessage}
        /\ pc = "done" => Outcome = << ExceptionMessage(exc) >>
        /\ pc = "raised" => Outcome = << >>

C10_Witness ==
    /\ pc = "done"
    /\ faultAt = "write"
    /\ fs0.file = OldFile
    /\ Len(writes) >= 1
    /\ n > Len(file.content)
    /\ Outcome = << ExceptionMessage("OSError") >>

====
